---- MODULE Spec2Model ----
(***************************************************************************)
(* Model of backend/app.py: a Flask service that maps HTTP verbs to SQLite  *)
(* statements over two tables, namespaces and snippets.                     *)
(*                                                                          *)
(* Three specifications are given.                                          *)
(*   Spec        : every request handler runs to completion before the      *)
(*                 next one starts (one worker); snippet bodies vary in     *)
(*                 id and namespaceId.                                      *)
(*   SnippetSpec : as Spec, with snippet bodies that vary in every member   *)
(*                 the handlers read (absent, falsy, nested, ill-typed).    *)
(*   ConcSpec    : wipe_database and delete_namespace advance one           *)
(*                 committed SQL statement at a time while other requests   *)
(*                 are served (several workers on one database file).       *)
(*                                                                          *)
(* Storage semantics assumed of the sqlite3 module as the code uses it:     *)
(*   - foreign keys are declared but PRAGMA foreign_keys is never switched  *)
(*     on, so the REFERENCES clause is not enforced;                        *)
(*   - DDL statements (CREATE/DROP TABLE) commit on their own; a DML        *)
(*     statement opens a transaction that lasts until conn.commit();        *)
(*   - a TEXT PRIMARY KEY column is unique but accepts NULL.                *)
(***************************************************************************)
EXTENDS Integers, Sequences, FiniteSets, TLC

VARIABLES
    db,         \* the committed content of the database file
    last,       \* the request that completed last: [op, id, status, leak],
                \* leak the connections it opened and did not close
    wipe,       \* the wipe_database request in flight (ConcSpec)
    del         \* the delete_namespace request in flight (ConcSpec)

vars == <<db, last, wipe, del>>

----------------------------------------------------------------------------
(* Bounds of the model *)

\* snippet ids the requests name
MaxSnippets == 2

----------------------------------------------------------------------------
(* JSON values of a request body, tagged by their type *)

JNull == [null |-> TRUE]
JBool(b) == [bool |-> b]
JNum(n) == [num |-> n]
JStr(s) == [str |-> s]
JArr(s) == [arr |-> s]
\* an object is its sequence of <<key, value>> members
JObj(s) == [obj |-> s]

IsNull(v) == "null" \in DOMAIN v
IsBool(v) == "bool" \in DOMAIN v
IsNum(v) == "num" \in DOMAIN v
IsStr(v) == "str" \in DOMAIN v
IsArr(v) == "arr" \in DOMAIN v
IsObj(v) == "obj" \in DOMAIN v

\* Python's None is what request.json gives for JSON null
PyNone == JNull

\* bool(v) of Python
Truthy(v) ==
    CASE IsNull(v) -> FALSE
      [] IsBool(v) -> v.bool
      [] IsNum(v) -> v.num # 0
      [] IsStr(v) -> v.str # ""
      [] IsArr(v) -> Len(v.arr) > 0
      [] IsObj(v) -> Len(v.obj) > 0

\* data.get(k): the member, or None
Get(data, k) == IF k \in DOMAIN data THEN data[k] ELSE PyNone

\* data.get(k, dflt)
GetOr(data, k, dflt) == IF k \in DOMAIN data THEN data[k] ELSE dflt

\* data[k] raises KeyError when the member is missing
HasKeys(data, ks) == ks \subseteq DOMAIN data

----------------------------------------------------------------------------
(* json.dumps and json.loads. A JSON text is the sequence of its lexical    *)
(* tokens.                                                                  *)

Digits == 0..9
JsonStrings == {"", "a", "b", "x"}

Quote(s) == "\"" \o s \o "\""

RECURSIVE json_dumps(_)
RECURSIVE DumpsItems(_, _)
RECURSIVE DumpsMembers(_, _)

DumpsItems(s, i) ==
    IF i > Len(s) THEN <<>>
    ELSE (IF i > 1 THEN <<",">> ELSE <<>>) \o json_dumps(s[i]) \o DumpsItems(s, i + 1)

DumpsMembers(s, i) ==
    IF i > Len(s) THEN <<>>
    ELSE (IF i > 1 THEN <<",">> ELSE <<>>)
         \o <<Quote(s[i][1]), ":">> \o json_dumps(s[i][2]) \o DumpsMembers(s, i + 1)

json_dumps(v) ==
    CASE IsNull(v) -> <<"null">>
      [] IsBool(v) -> IF v.bool THEN <<"true">> ELSE <<"false">>
      [] IsNum(v) -> <<ToString(v.num)>>
      [] IsStr(v) -> <<Quote(v.str)>>
      [] IsArr(v) -> <<"[">> \o DumpsItems(v.arr, 1) \o <<"]">>
      [] IsObj(v) -> <<"{">> \o DumpsMembers(v.obj, 1) \o <<"}">>

IsNumTok(t) == \E n \in Digits : ToString(n) = t
NumOfTok(t) == CHOOSE n \in Digits : ToString(n) = t
IsStrTok(t) == \E s \in JsonStrings : Quote(s) = t
StrOfTok(t) == CHOOSE s \in JsonStrings : Quote(s) = t

ParseFail == [ok |-> FALSE, val |-> JNull, next |-> 0]
Parsed(v, n) == [ok |-> TRUE, val |-> v, next |-> n]

RECURSIVE ParseValue(_, _)
RECURSIVE ParseItems(_, _, _)
RECURSIVE ParseMembers(_, _, _)

\* the items of an array after "[" or after a ","; acc holds those read so far
ParseItems(t, i, acc) ==
    LET r == ParseValue(t, i) IN
    IF ~r.ok \/ r.next > Len(t) THEN ParseFail
    ELSE IF t[r.next] = "]" THEN Parsed(JArr(Append(acc, r.val)), r.next + 1)
    ELSE IF t[r.next] = "," THEN ParseItems(t, r.next + 1, Append(acc, r.val))
    ELSE ParseFail

ParseMembers(t, i, acc) ==
    IF i + 1 > Len(t) \/ ~IsStrTok(t[i]) \/ t[i + 1] # ":" THEN ParseFail
    ELSE LET r == ParseValue(t, i + 2)
             m == <<StrOfTok(t[i]), r.val>>
         IN IF ~r.ok \/ r.next > Len(t) THEN ParseFail
            ELSE IF t[r.next] = "}" THEN Parsed(JObj(Append(acc, m)), r.next + 1)
            ELSE IF t[r.next] = "," THEN ParseMembers(t, r.next + 1, Append(acc, m))
            ELSE ParseFail

ParseValue(t, i) ==
    IF i > Len(t) THEN ParseFail
    ELSE CASE t[i] = "null" -> Parsed(JNull, i + 1)
           [] t[i] = "true" -> Parsed(JBool(TRUE), i + 1)
           [] t[i] = "false" -> Parsed(JBool(FALSE), i + 1)
           [] t[i] = "[" ->
                IF i + 1 <= Len(t) /\ t[i + 1] = "]" THEN Parsed(JArr(<<>>), i + 2)
                ELSE ParseItems(t, i + 1, <<>>)
           [] t[i] = "{" ->
                IF i + 1 <= Len(t) /\ t[i + 1] = "}" THEN Parsed(JObj(<<>>), i + 2)
                ELSE ParseMembers(t, i + 1, <<>>)
           [] IsNumTok(t[i]) -> Parsed(JNum(NumOfTok(t[i])), i + 1)
           [] IsStrTok(t[i]) -> Parsed(JStr(StrOfTok(t[i])), i + 1)
           [] OTHER -> ParseFail

\* json.loads: [ok, val]; ok is FALSE where Python raises
json_loads(t) ==
    LET r == ParseValue(t, 1) IN
    IF r.ok /\ r.next = Len(t) + 1 THEN [ok |-> TRUE, val |-> r.val]
    ELSE [ok |-> FALSE, val |-> JNull]

----------------------------------------------------------------------------
(* SQL values and the binding of Python values to statement parameters *)

SqlNull == [null |-> TRUE]
SqlText(s) == [text |-> s]
SqlInt(n) == [int |-> n]

\* lists and dicts cannot be bound: sqlite3 raises on them
Bindable(v) == ~IsArr(v) /\ ~IsObj(v)

Bind(v) ==
    CASE IsNull(v) -> SqlNull
      [] IsBool(v) -> SqlInt(IF v.bool THEN 1 ELSE 0)
      [] IsNum(v) -> SqlInt(v.num)
      [] IsStr(v) -> SqlText(v.str)

\* created_at.replace('Z', '+00:00')
ReplaceZ(s) ==
    CASE s = "1970-01-01T00:00:01Z" -> "1970-01-01T00:00:01+00:00"
      [] s = "1970-01-01T00:00:02Z" -> "1970-01-01T00:00:02+00:00"
      [] OTHER -> s

\* datetime.fromisoformat(s).timestamp(), in whole seconds, of the strings it accepts
IsoSeconds ==
    ("1970-01-01T00:00:01+00:00" :> 1) @@ ("1970-01-01T00:00:02+00:00" :> 2)

\* a timestamp member: a string is parsed to epoch milliseconds, anything else
\* is passed on as it is; ok is FALSE where fromisoformat raises ValueError
ToEpochMs(v) ==
    IF IsStr(v)
    THEN LET s == ReplaceZ(v.str) IN
         IF s \in DOMAIN IsoSeconds
         THEN [ok |-> TRUE, val |-> JNum(IsoSeconds[s] * 1000)]
         ELSE [ok |-> FALSE, val |-> v]
    ELSE [ok |-> TRUE, val |-> v]

----------------------------------------------------------------------------
(* The database file: which tables exist, whether snippets has the          *)
(* namespaceId column, and the rows of each table in rowid order.           *)

NAMESPACES == "namespaces"
SNIPPETS == "snippets"

\* the row both seeding statements insert
DefaultNamespace(now) ==
    [id |-> SqlText("default"), name |-> SqlText("Default"),
     createdAt |-> SqlInt(now), isDefault |-> SqlInt(1)]

EmptyFile ==
    [tables |-> {}, hasNamespaceId |-> FALSE, namespaces |-> <<>>, snippets |-> <<>>]

\* DROP TABLE IF EXISTS
DropTable(d, t) ==
    IF t = NAMESPACES
    THEN [d EXCEPT !.tables = @ \ {NAMESPACES}, !.namespaces = <<>>]
    ELSE [d EXCEPT !.tables = @ \ {SNIPPETS}, !.snippets = <<>>, !.hasNamespaceId = FALSE]

\* CREATE TABLE IF NOT EXISTS, with the current columns
CreateTableIfNotExists(d, t) ==
    IF t \in d.tables THEN d
    ELSE IF t = NAMESPACES
    THEN [d EXCEPT !.tables = @ \cup {NAMESPACES}, !.namespaces = <<>>]
    ELSE [d EXCEPT !.tables = @ \cup {SNIPPETS}, !.snippets = <<>>, !.hasNamespaceId = TRUE]

\* a statement naming namespaceId can be prepared on snippets
SnippetsUsable(d) == SNIPPETS \in d.tables /\ d.hasNamespaceId
NamespacesUsable(d) == NAMESPACES \in d.tables

\* the primary key is unique among the rows, NULL apart
PkFree(rows, id) == id = SqlNull \/ \A i \in 1..Len(rows) : rows[i].id # id

NotNull(row, cols) == \A c \in cols : row[c] # SqlNull

\* INSERT INTO namespaces: [ok, db]; ok is FALSE where sqlite3 raises
InsertNamespace(d, row) ==
    IF NamespacesUsable(d) /\ NotNull(row, {"name", "createdAt"}) /\ PkFree(d.namespaces, row.id)
    THEN [ok |-> TRUE, db |-> [d EXCEPT !.namespaces = Append(@, row)]]
    ELSE [ok |-> FALSE, db |-> d]

SnippetNotNull == {"title", "code", "language", "category", "createdAt", "updatedAt"}

\* INSERT INTO snippets
InsertSnippet(d, row) ==
    IF SnippetsUsable(d) /\ NotNull(row, SnippetNotNull) /\ PkFree(d.snippets, row.id)
    THEN [ok |-> TRUE, db |-> [d EXCEPT !.snippets = Append(@, row)]]
    ELSE [ok |-> FALSE, db |-> d]

\* the rowids (positions) of the rows WHERE isDefault = 1
DefaultRows(d) == {i \in 1..Len(d.namespaces) : d.namespaces[i].isDefault = SqlInt(1)}

\* SELECT COUNT(*) FROM namespaces WHERE isDefault = 1
DefaultCount(d) == Cardinality(DefaultRows(d))

\* the first row a scan in rowid order gives (fetchone)
First(S) == CHOOSE i \in S : \A j \in S : i <= j

----------------------------------------------------------------------------
(* Schema initialisation *)

\* what a handler or a start-up routine leaves behind
Outcome(d, status, leak) == [db |-> d, status |-> status, leak |-> leak]

\* Variant of MigrationNeeded: the column check reads the columns of
\* namespaces instead of those of snippets, and never finds namespaceId
MigrationNeededWrongTable(d) ==
    ~NamespacesUsable(d) \/ "namespaceId" \notin {"id", "name", "createdAt", "isDefault"}

\* check_and_migrate_schema: recreate both tables when namespaces is missing
\* or snippets has no namespaceId column
MigrationNeeded(d) == ~NamespacesUsable(d) \/ ~SnippetsUsable(d)

check_and_migrate_schema(d, now) ==
    IF MigrationNeeded(d)
    THEN LET d1 == DropTable(DropTable(d, SNIPPETS), NAMESPACES)
             d2 == [d1 EXCEPT !.tables = {NAMESPACES, SNIPPETS}, !.hasNamespaceId = TRUE]
         IN InsertNamespace(d2, DefaultNamespace(now)).db
    ELSE d

\* init_db up to its commit: create the tables that are missing and seed the
\* default namespace when no row is flagged default
SeedNeeded(d) == DefaultCount(d) = 0

InitTables(d) ==
    CreateTableIfNotExists(CreateTableIfNotExists(d, NAMESPACES), SNIPPETS)

\* init_db: status 0 when it returns, 1 when the seeding INSERT raises; the
\* CREATE statements are committed either way
init_db(d, now) ==
    LET d1 == InitTables(d)
        ins == InsertNamespace(d1, DefaultNamespace(now))
    IN IF SeedNeeded(d1)
       THEN IF ins.ok
            THEN Outcome(check_and_migrate_schema(ins.db, now), 0, 0)
            ELSE Outcome(d1, 1, 1)
       ELSE Outcome(check_and_migrate_schema(d1, now), 0, 0)

----------------------------------------------------------------------------
(* Snippet handlers *)

SnippetRequired == {"id", "title", "code", "language"}
SnippetBound ==
    {"id", "title", "description", "code", "language", "category",
     "namespaceId", "functionName"}

\* json.dumps(data.get('inputParameters')) if data.get('inputParameters') else None
InputParamsJson(data) ==
    IF Truthy(Get(data, "inputParameters"))
    THEN SqlText(json_dumps(Get(data, "inputParameters")))
    ELSE SqlNull

\* 1 if data.get('hasPreview') else 0
Flag(data, k) == SqlInt(IF Truthy(Get(data, k)) THEN 1 ELSE 0)

\* the members that are bound as they are can all be bound
AllBindable(data, ks) == \A k \in ks \cap DOMAIN data : Bindable(data[k])

\* the columns update_snippet sets, from the request body
MutableColumns(data, updated) ==
    [title |-> Bind(data["title"]),
     description |-> Bind(GetOr(data, "description", JStr(""))),
     code |-> Bind(data["code"]),
     language |-> Bind(data["language"]),
     category |-> Bind(GetOr(data, "category", JStr("general"))),
     namespaceId |-> Bind(Get(data, "namespaceId")),
     hasPreview |-> Flag(data, "hasPreview"),
     functionName |-> Bind(Get(data, "functionName")),
     inputParameters |-> InputParamsJson(data),
     updatedAt |-> Bind(updated)]

\* the row create_snippet inserts
NewSnippetRow(data, created, updated) ==
    [c \in {"id", "createdAt"} |->
        IF c = "id" THEN Bind(data["id"]) ELSE Bind(created)]
    @@ MutableColumns(data, updated)

\* POST /api/snippets
create_snippet(d, data) ==
    LET c == ToEpochMs(Get(data, "createdAt"))
        u == ToEpochMs(Get(data, "updatedAt"))
    IN IF /\ c.ok /\ u.ok
          /\ HasKeys(data, SnippetRequired)
          /\ AllBindable(data, SnippetBound)
          /\ Bindable(c.val) /\ Bindable(u.val)
       THEN LET ins == InsertSnippet(d, NewSnippetRow(data, c.val, u.val))
            IN IF ins.ok THEN Outcome(ins.db, 201, 0) ELSE Outcome(d, 500, 1)
       ELSE Outcome(d, 500, 1)

\* the rowids of the snippets WHERE id = ?
SnippetsWithId(d, id) == {i \in 1..Len(d.snippets) : d.snippets[i].id = SqlText(id)}

\* UPDATE snippets SET ... WHERE id = ?: the row keeps id and createdAt
UpdatedRow(row, cols) == [c \in DOMAIN row |-> IF c \in DOMAIN cols THEN cols[c] ELSE row[c]]

\* Variant of update_snippet: cursor.rowcount is not looked at, a request that
\* matched no row is answered like one that did
update_snippet_no_rowcount(d, id, data) ==
    LET u == ToEpochMs(Get(data, "updatedAt"))
        hit == SnippetsWithId(d, id)
        cols == MutableColumns(data, u.val)
    IN IF /\ u.ok
          /\ HasKeys(data, SnippetRequired \ {"id"})
          /\ AllBindable(data, SnippetBound \ {"id"})
          /\ Bindable(u.val)
          /\ SnippetsUsable(d)
          /\ (hit = {} \/ NotNull(cols, SnippetNotNull \ {"createdAt"}))
       THEN Outcome([d EXCEPT !.snippets =
                       [i \in 1..Len(@) |->
                          IF i \in hit THEN UpdatedRow(@[i], cols) ELSE @[i]]],
                    200, 0)
       ELSE Outcome(d, 500, 1)

\* PUT /api/snippets/<snippet_id>
update_snippet(d, id, data) ==
    LET u == ToEpochMs(Get(data, "updatedAt"))
        hit == SnippetsWithId(d, id)
    IN IF /\ u.ok
          /\ HasKeys(data, SnippetRequired \ {"id"})
          /\ AllBindable(data, SnippetBound \ {"id"})
          /\ Bindable(u.val)
          /\ SnippetsUsable(d)
       THEN IF hit = {} THEN Outcome(d, 404, 0)
            ELSE LET cols == MutableColumns(data, u.val) IN
                 IF NotNull(cols, SnippetNotNull \ {"createdAt"})
                 THEN Outcome([d EXCEPT !.snippets =
                                 [i \in 1..Len(@) |->
                                    IF i \in hit THEN UpdatedRow(@[i], cols) ELSE @[i]]],
                              200, 0)
                 ELSE Outcome(d, 500, 1)
       ELSE Outcome(d, 500, 1)

\* the rows of a sequence whose positions are not in S, in order
RECURSIVE Without(_, _, _)
Without(rows, S, i) ==
    IF i > Len(rows) THEN <<>>
    ELSE (IF i \in S THEN <<>> ELSE <<rows[i]>>) \o Without(rows, S, i + 1)

\* DELETE /api/snippets/<snippet_id>
delete_snippet(d, id) ==
    IF SNIPPETS \in d.tables
    THEN LET hit == SnippetsWithId(d, id) IN
         IF hit = {} THEN Outcome(d, 404, 0)
         ELSE Outcome([d EXCEPT !.snippets = Without(@, hit, 1)], 200, 0)
    ELSE Outcome(d, 500, 1)

\* a column value as jsonify sends it
ToJson(v) ==
    CASE "null" \in DOMAIN v -> JNull
      [] "int" \in DOMAIN v -> JNum(v.int)
      [] "text" \in DOMAIN v -> JStr(v.text)

\* the stored inputParameters as a read sends them: decoded when the column is
\* a non-empty text, None when decoding fails, as stored otherwise
DecodeInputParameters(v) ==
    IF "text" \in DOMAIN v /\ v.text # <<>>
    THEN LET r == json_loads(v.text) IN IF r.ok THEN r.val ELSE PyNone
    ELSE ToJson(v)

\* dict(row) with inputParameters decoded and hasPreview made a bool
SnippetJson(row) ==
    [c \in DOMAIN row |->
        CASE c = "inputParameters" -> DecodeInputParameters(row[c])
          [] c = "hasPreview" -> JBool(row[c] # SqlInt(0) /\ row[c] # SqlNull)
          [] OTHER -> ToJson(row[c])]

\* GET /api/snippets/<snippet_id>: [status, body]
get_snippet(d, id) ==
    IF SNIPPETS \in d.tables
    THEN LET hit == SnippetsWithId(d, id) IN
         IF hit = {} THEN [status |-> 404, body |-> <<>>]
         ELSE [status |-> 200, body |-> SnippetJson(d.snippets[First(hit)])]
    ELSE [status |-> 500, body |-> <<>>]

\* ORDER BY updatedAt DESC: a stable insertion into a sorted sequence
RECURSIVE InsertByUpdatedAt(_, _, _)
InsertByUpdatedAt(sorted, row, i) ==
    IF i > Len(sorted) THEN Append(sorted, row)
    ELSE IF sorted[i].updatedAt.int < row.updatedAt.int
    THEN SubSeq(sorted, 1, i - 1) \o <<row>> \o SubSeq(sorted, i, Len(sorted))
    ELSE InsertByUpdatedAt(sorted, row, i + 1)

RECURSIVE OrderByUpdatedAtDesc(_, _)
OrderByUpdatedAtDesc(rows, n) ==
    IF n = 0 THEN <<>>
    ELSE InsertByUpdatedAt(OrderByUpdatedAtDesc(rows, n - 1), rows[n], 1)

\* GET /api/snippets: [status, body]
get_snippets(d) ==
    IF SNIPPETS \in d.tables
    THEN LET rows == OrderByUpdatedAtDesc(d.snippets, Len(d.snippets)) IN
         [status |-> 200, body |-> [i \in 1..Len(rows) |-> SnippetJson(rows[i])]]
    ELSE [status |-> 500, body |-> <<>>]

----------------------------------------------------------------------------
(* Namespace handlers *)

\* ORDER BY isDefault DESC, name ASC: names in the order of their bytes
NameOrder == <<"Default", "Play", "Work">>
NameRank(n) == CHOOSE i \in 1..Len(NameOrder) : NameOrder[i] = n.text

ComesBefore(a, b) ==
    \/ a.isDefault.int > b.isDefault.int
    \/ a.isDefault = b.isDefault /\ NameRank(a.name) < NameRank(b.name)

RECURSIVE InsertNamespaceOrdered(_, _, _)
InsertNamespaceOrdered(sorted, row, i) ==
    IF i > Len(sorted) THEN Append(sorted, row)
    ELSE IF ComesBefore(row, sorted[i])
    THEN SubSeq(sorted, 1, i - 1) \o <<row>> \o SubSeq(sorted, i, Len(sorted))
    ELSE InsertNamespaceOrdered(sorted, row, i + 1)

RECURSIVE OrderNamespaces(_, _)
OrderNamespaces(rows, n) ==
    IF n = 0 THEN <<>>
    ELSE InsertNamespaceOrdered(OrderNamespaces(rows, n - 1), rows[n], 1)

\* dict(row) with isDefault made a bool
NamespaceJson(row) ==
    [c \in DOMAIN row |->
        IF c = "isDefault" THEN JBool(row[c] # SqlInt(0) /\ row[c] # SqlNull)
        ELSE ToJson(row[c])]

\* GET /api/namespaces: [status, body]
get_namespaces(d) ==
    IF NamespacesUsable(d)
    THEN LET rows == OrderNamespaces(d.namespaces, Len(d.namespaces)) IN
         [status |-> 200, body |-> [i \in 1..Len(rows) |-> NamespaceJson(rows[i])]]
    ELSE [status |-> 500, body |-> <<>>]

\* the row create_namespace inserts
NewNamespaceRow(data, created) ==
    [id |-> Bind(data["id"]), name |-> Bind(data["name"]),
     createdAt |-> Bind(created), isDefault |-> Flag(data, "isDefault")]

\* POST /api/namespaces
create_namespace(d, data) ==
    LET c == ToEpochMs(Get(data, "createdAt")) IN
    IF /\ c.ok
       /\ HasKeys(data, {"id", "name"})
       /\ AllBindable(data, {"id", "name"})
       /\ Bindable(c.val)
    THEN LET ins == InsertNamespace(d, NewNamespaceRow(data, c.val))
         IN IF ins.ok THEN Outcome(ins.db, 201, 0) ELSE Outcome(d, 500, 1)
    ELSE Outcome(d, 500, 1)

\* the rowids of the namespaces WHERE id = ?
NamespacesWithId(d, id) ==
    {i \in 1..Len(d.namespaces) : d.namespaces[i].id = SqlText(id)}

\* Variant of DeleteLookup: the default namespace is recognised by its id
\* 'default' instead of its isDefault flag
DeleteLookupById(d, id) ==
    IF ~NamespacesUsable(d) THEN 500
    ELSE IF NamespacesWithId(d, id) = {} THEN 404
    ELSE IF id = "default" THEN 400
    ELSE 0

\* SELECT isDefault FROM namespaces WHERE id = ? and the two early returns:
\* the status the handler returns at once, or 0 when it goes on
DeleteLookup(d, id) ==
    IF ~NamespacesUsable(d) THEN 500
    ELSE IF NamespacesWithId(d, id) = {} THEN 404
    ELSE IF d.namespaces[First(NamespacesWithId(d, id))].isDefault \notin {SqlInt(0), SqlNull}
    THEN 400
    ELSE 0

\* SELECT id FROM namespaces WHERE isDefault = 1, or the literal 'default'
DefaultId(d) ==
    IF DefaultRows(d) # {} THEN d.namespaces[First(DefaultRows(d))].id
    ELSE SqlText("default")

\* UPDATE snippets SET namespaceId = ? WHERE namespaceId = ?
Reassign(rows, from, to) ==
    [i \in 1..Len(rows) |->
        IF rows[i].namespaceId = SqlText(from)
        THEN [rows[i] EXCEPT !.namespaceId = to]
        ELSE rows[i]]

\* Variant of ReassignAndDelete: the UPDATE of the snippets is left out
DeleteOnly(d, id, default_id) ==
    IF SnippetsUsable(d) /\ NamespacesUsable(d)
    THEN Outcome([d EXCEPT !.namespaces = Without(@, NamespacesWithId(d, id), 1)], 200, 0)
    ELSE Outcome(d, 500, 1)

\* the UPDATE, the DELETE and the commit of delete_namespace, one transaction
ReassignAndDelete(d, id, default_id) ==
    IF SnippetsUsable(d) /\ NamespacesUsable(d)
    THEN Outcome([d EXCEPT !.snippets = Reassign(@, id, default_id),
                           !.namespaces = Without(@, NamespacesWithId(d, id), 1)],
                 200, 0)
    ELSE Outcome(d, 500, 1)

\* DELETE /api/namespaces/<namespace_id>
delete_namespace(d, id) ==
    LET early == DeleteLookup(d, id) IN
    IF early = 500 THEN Outcome(d, 500, 1)
    ELSE IF early # 0 THEN Outcome(d, early, 0)
    ELSE ReassignAndDelete(d, id, DefaultId(d))

\* Variant of wipe_database: only the snippets table is dropped
wipe_snippets_only(d, now) ==
    LET r == init_db(DropTable(d, SNIPPETS), now) IN
    Outcome(r.db, IF r.status = 0 THEN 200 ELSE 500, r.leak)

\* POST /api/wipe: both DROPs, then init_db
wipe_database(d, now) ==
    LET r == init_db(DropTable(DropTable(d, SNIPPETS), NAMESPACES), now) IN
    Outcome(r.db, IF r.status = 0 THEN 200 ELSE 500, r.leak)

----------------------------------------------------------------------------
(* Requests the model sends *)

IdNames == <<"1", "2", "3", "4">>
SnippetIds == {"s" \o IdNames[i] : i \in 1..MaxSnippets}
NamespaceIds == {"ns1", "ns2"}

\* the time datetime.utcnow() gives, in epoch milliseconds
Clock == {5000}

Iso1 == "1970-01-01T00:00:01Z"
Iso2 == "1970-01-01T00:00:02+00:00"

\* a nested value whose truth value is True
Nested == JObj(<< <<"a", JArr(<<JNum(1), JArr(<<>>), JBool(FALSE)>>)>>, <<"b", JStr("x")>> >>)

\* values of inputParameters whose truth value is False
FalsyValues == {JArr(<<>>), JObj(<<>>), JNum(0), JBool(FALSE), JStr("")}

BaseSnippet(id) ==
    [id |-> JStr(id), title |-> JStr("t"), code |-> JStr("c"), language |-> JStr("py"),
     createdAt |-> JNum(1000), updatedAt |-> JNum(1000)]

With(data, k, v) == (k :> v) @@ data
Minus(data, k) == [x \in DOMAIN data \ {k} |-> data[x]]

\* ISO timestamps, a preview flag and nested inputParameters
PreviewSnippet(id) ==
    [BaseSnippet(id) EXCEPT !.createdAt = JStr(Iso1), !.updatedAt = JStr(Iso2)]
    @@ [hasPreview |-> JBool(TRUE), inputParameters |-> Nested]

\* bodies that differ in the namespace they name, and one without a title
NamespaceSnippetBodies(id) ==
    {BaseSnippet(id), Minus(BaseSnippet(id), "title")}
    \cup {With(BaseSnippet(id), "namespaceId", JStr(n)) : n \in NamespaceIds}

\* bodies that differ in their fields
FieldSnippetBodies(id) ==
    {BaseSnippet(id), PreviewSnippet(id), Minus(BaseSnippet(id), "title"),
     Minus(BaseSnippet(id), "createdAt"), Minus(BaseSnippet(id), "updatedAt"),
     With(BaseSnippet(id), "updatedAt", JStr("yesterday")),
     With(BaseSnippet(id), "namespaceId", JStr("ns1"))}
    \cup {With(BaseSnippet(id), "inputParameters", v) : v \in FalsyValues}

\* the name a namespace is given
NameOf(id) == IF id = "ns1" THEN "Work" ELSE "Play"

NamespaceBodies(id) ==
    {[id |-> JStr(id), name |-> JStr(NameOf(id)), createdAt |-> JNum(1000)],
     [id |-> JStr(id), name |-> JStr(NameOf(id)), createdAt |-> JStr(Iso1),
      isDefault |-> JBool(FALSE)],
     [id |-> JStr(id), name |-> JStr(NameOf(id)), createdAt |-> JNum(1000),
      isDefault |-> JBool(TRUE)],
     [id |-> JStr(id), createdAt |-> JNum(1000)]}

----------------------------------------------------------------------------
(* The state machine *)

Idle == [pc |-> "idle", id |-> "", default_id |-> SqlNull, count |-> 0]

Request(op, id, r) == [op |-> op, id |-> id, status |-> r.status, leak |-> r.leak]

\* a snippets table of the schema before namespaces: no namespaceId column
LegacyRow == Minus(NewSnippetRow(BaseSnippet("s1"), JNum(1000), JNum(1000)), "namespaceId")
LegacyFile ==
    [tables |-> {SNIPPETS}, hasNamespaceId |-> FALSE, namespaces |-> <<>>,
     snippets |-> <<LegacyRow>>]

\* a file whose tables were created by a start that ended before it seeded
InterruptedFile == InitTables(EmptyFile)

Init ==
    /\ db \in {EmptyFile, LegacyFile, InterruptedFile}
    /\ last = [op |-> "boot", id |-> "", status |-> 0, leak |-> 0]
    /\ wipe = Idle
    /\ del = Idle

\* app.run is reached only when init_db returned
Serving == last.op # "boot" /\ ~(last.op = "init_db" /\ last.status # 0)

\* a handler that runs from its first statement to its response
Handle(op, id, r) ==
    /\ Serving
    /\ db' = r.db
    /\ last' = Request(op, id, r)
    /\ UNCHANGED <<wipe, del>>

ReadOnly(op, id, r) == Handle(op, id, Outcome(db, r.status, IF r.status = 500 THEN 1 ELSE 0))

\* the process starts, or is started again: __main__ runs init_db
StartUp ==
    /\ wipe = Idle /\ del = Idle
    /\ \E now \in Clock :
         LET r == init_db(db, now) IN
         /\ db' = r.db
         /\ last' = Request("init_db", "", r)
    /\ UNCHANGED <<wipe, del>>

GetSnippets == ReadOnly("get_snippets", "", get_snippets(db))

GetSnippet == \E id \in SnippetIds : ReadOnly("get_snippet", id, get_snippet(db, id))

CreateSnippet ==
    \E id \in SnippetIds : \E data \in NamespaceSnippetBodies(id) :
        Handle("create_snippet", id, create_snippet(db, data))

UpdateSnippet ==
    \E id \in SnippetIds : \E data \in NamespaceSnippetBodies(id) :
        Handle("update_snippet", id, update_snippet(db, id, data))

DeleteSnippet == \E id \in SnippetIds : Handle("delete_snippet", id, delete_snippet(db, id))

GetNamespaces == ReadOnly("get_namespaces", "", get_namespaces(db))

CreateNamespace ==
    \E id \in NamespaceIds \cup {"default"} : \E data \in NamespaceBodies(id) :
        Handle("create_namespace", id, create_namespace(db, data))

DeleteNamespace ==
    \E id \in NamespaceIds \cup {"default"} :
        Handle("delete_namespace", id, delete_namespace(db, id))

WipeDatabase == \E now \in Clock : Handle("wipe_database", "", wipe_database(db, now))

Next ==
    \/ StartUp
    \/ GetSnippets
    \/ GetSnippet
    \/ CreateSnippet
    \/ UpdateSnippet
    \/ DeleteSnippet
    \/ GetNamespaces
    \/ CreateNamespace
    \/ DeleteNamespace
    \/ WipeDatabase

\* one worker: each request runs to its response before the next starts
Spec == Init /\ [][Next]_vars

----------------------------------------------------------------------------
(* One worker, requests that differ in the fields of the snippet *)

CreateFieldSnippet ==
    \E id \in SnippetIds : \E data \in FieldSnippetBodies(id) :
        Handle("create_snippet", id, create_snippet(db, data))

UpdateFieldSnippet ==
    \E id \in SnippetIds : \E data \in FieldSnippetBodies(id) :
        Handle("update_snippet", id, update_snippet(db, id, data))

SnippetNext ==
    \/ StartUp
    \/ GetSnippets
    \/ GetSnippet
    \/ CreateFieldSnippet
    \/ UpdateFieldSnippet
    \/ DeleteSnippet

SnippetSpec == Init /\ [][SnippetNext]_vars

----------------------------------------------------------------------------
(* Several workers: wipe_database and delete_namespace take one step per    *)
(* statement that commits, and other requests run between their steps.      *)

\* the ids the requests of these workers name
ConcSnippetIds == {"s1"}
ConcNamespaceIds == {"ns1"}

Finish(op, id, r) ==
    /\ db' = r.db
    /\ last' = Request(op, id, r)

\* DROP TABLE IF EXISTS snippets
WipeDropSnippets ==
    /\ Serving /\ wipe.pc = "idle"
    /\ db' = DropTable(db, SNIPPETS)
    /\ wipe' = [wipe EXCEPT !.pc = "drop_namespaces"]
    /\ UNCHANGED <<last, del>>

\* DROP TABLE IF EXISTS namespaces; commit, close, and init_db is entered
WipeDropNamespaces ==
    /\ wipe.pc = "drop_namespaces"
    /\ db' = DropTable(db, NAMESPACES)
    /\ wipe' = [wipe EXCEPT !.pc = "create_namespaces"]
    /\ UNCHANGED <<last, del>>

\* CREATE TABLE IF NOT EXISTS namespaces
WipeCreateNamespaces ==
    /\ wipe.pc = "create_namespaces"
    /\ db' = CreateTableIfNotExists(db, NAMESPACES)
    /\ wipe' = [wipe EXCEPT !.pc = "create_snippets"]
    /\ UNCHANGED <<last, del>>

\* CREATE TABLE IF NOT EXISTS snippets
WipeCreateSnippets ==
    /\ wipe.pc = "create_snippets"
    /\ db' = CreateTableIfNotExists(db, SNIPPETS)
    /\ wipe' = [wipe EXCEPT !.pc = "count"]
    /\ UNCHANGED <<last, del>>

\* SELECT COUNT(*) FROM namespaces WHERE isDefault = 1
WipeCountDefaults ==
    /\ wipe.pc = "count"
    /\ wipe' = [wipe EXCEPT !.pc = "seed", !.count = DefaultCount(db)]
    /\ UNCHANGED <<db, last, del>>

\* the seeding INSERT when the count was 0, and the commit of init_db; the
\* INSERT raises when a row with id 'default' was committed meanwhile
WipeSeed ==
    /\ wipe.pc = "seed"
    /\ \E now \in Clock :
         LET ins == InsertNamespace(db, DefaultNamespace(now)) IN
         IF wipe.count = 0 /\ ~ins.ok
         THEN /\ Finish("wipe_database", "", Outcome(db, 500, 1))
              /\ wipe' = Idle
         ELSE /\ db' = IF wipe.count = 0 THEN ins.db ELSE db
              /\ wipe' = [wipe EXCEPT !.pc = "migrate"]
              /\ UNCHANGED last
    /\ UNCHANGED del

\* check_and_migrate_schema, and the response
WipeMigrate ==
    /\ wipe.pc = "migrate"
    /\ \E now \in Clock :
         Finish("wipe_database", "", Outcome(check_and_migrate_schema(db, now), 200, 0))
    /\ wipe' = Idle
    /\ UNCHANGED del

\* SELECT isDefault FROM namespaces WHERE id = ?, and the early returns
DeleteBegin ==
    /\ Serving /\ del.pc = "idle"
    /\ \E id \in ConcNamespaceIds \cup {"default"} :
         LET early == DeleteLookup(db, id) IN
         IF early = 0
         THEN /\ del' = [del EXCEPT !.pc = "find_default", !.id = id]
              /\ UNCHANGED <<db, last>>
         ELSE /\ Finish("delete_namespace", id,
                        Outcome(db, early, IF early = 500 THEN 1 ELSE 0))
              /\ UNCHANGED del
    /\ UNCHANGED wipe

\* SELECT id FROM namespaces WHERE isDefault = 1
DeleteFindDefault ==
    /\ del.pc = "find_default"
    /\ IF NamespacesUsable(db)
       THEN /\ del' = [del EXCEPT !.pc = "reassign", !.default_id = DefaultId(db)]
            /\ UNCHANGED <<db, last>>
       ELSE /\ Finish("delete_namespace", del.id, Outcome(db, 500, 1))
            /\ del' = Idle
    /\ UNCHANGED wipe

\* UPDATE snippets, DELETE FROM namespaces, commit
DeleteCommit ==
    /\ del.pc = "reassign"
    /\ Finish("delete_namespace", del.id, ReassignAndDelete(db, del.id, del.default_id))
    /\ del' = Idle
    /\ UNCHANGED wipe


ConcCreateNamespace ==
    \E id \in ConcNamespaceIds \cup {"default"} : \E data \in NamespaceBodies(id) :
        Handle("create_namespace", id, create_namespace(db, data))

ConcCreateSnippet ==
    \E id \in ConcSnippetIds : \E data \in NamespaceSnippetBodies(id) :
        Handle("create_snippet", id, create_snippet(db, data))

ConcUpdateSnippet ==
    \E id \in ConcSnippetIds : \E data \in NamespaceSnippetBodies(id) :
        Handle("update_snippet", id, update_snippet(db, id, data))

ConcDeleteSnippet ==
    \E id \in ConcSnippetIds : Handle("delete_snippet", id, delete_snippet(db, id))

ConcGetSnippet ==
    \E id \in ConcSnippetIds : ReadOnly("get_snippet", id, get_snippet(db, id))

ConcStartUp == last.op = "boot" /\ StartUp

ConcNext ==
    \/ ConcStartUp
    \/ GetSnippets
    \/ ConcGetSnippet
    \/ ConcCreateSnippet
    \/ ConcUpdateSnippet
    \/ ConcDeleteSnippet
    \/ GetNamespaces
    \/ ConcCreateNamespace
    \/ WipeDropSnippets
    \/ WipeDropNamespaces
    \/ WipeCreateNamespaces
    \/ WipeCreateSnippets
    \/ WipeCountDefaults
    \/ WipeSeed
    \/ WipeMigrate
    \/ DeleteBegin
    \/ DeleteFindDefault
    \/ DeleteCommit

ConcSpec == Init /\ [][ConcNext]_vars

----------------------------------------------------------------------------
(* Properties of the handlers *)

AllNamespaceIds == NamespaceIds \cup {"default"}

\* the ids of the namespaces flagged default in d
DefaultIds(d) == {d.namespaces[j].id : j \in DefaultRows(d)}

\* the step just taken answered a delete_namespace on n
DeleteNamespaceStep(n) == last'.op = "delete_namespace" /\ last'.id = n

\* C1: a successful delete_namespace(N) of an existing non-default namespace
\* leaves every snippet that had namespaceId = N with the id of a namespace
\* flagged default, leaves N absent from namespaces, and leaves every other
\* snippet as it was.
C1_DeleteReassignsToDefault ==
    [][\A n \in AllNamespaceIds :
         DeleteNamespaceStep(n) /\ last'.status = 200 =>
            /\ NamespacesWithId(db, n) # {}
            /\ SqlText(n) \notin DefaultIds(db)
            /\ NamespacesWithId(db', n) = {}
            /\ Len(db'.snippets) = Len(db.snippets)
            /\ \A i \in 1..Len(db.snippets) :
                 IF db.snippets[i].namespaceId = SqlText(n)
                 THEN /\ db'.snippets[i].namespaceId \in DefaultIds(db)
                      /\ db'.snippets[i].namespaceId \in DefaultIds(db')
                      /\ db'.snippets[i] =
                            [db.snippets[i] EXCEPT !.namespaceId = db'.snippets[i].namespaceId]
                 ELSE db'.snippets[i] = db.snippets[i]]_vars

\* a delete_namespace has just moved a snippet to "default" while another
\* snippet stays in a namespace that still exists
C1_Witness ==
    /\ last.op = "delete_namespace" /\ last.status = 200
    /\ \E i, j \in 1..Len(db.snippets) :
         /\ db.snippets[i].namespaceId = SqlText("default")
         /\ db.snippets[j].namespaceId # SqlText("default")
         /\ \E k \in 1..Len(db.namespaces) : db.namespaces[k].id = db.snippets[j].namespaceId

\* C2: delete_namespace on the id of any namespace whose isDefault flag is set
\* is answered 400 and leaves both tables as they were.
C2_DefaultNeverDeleted ==
    [][\A n \in AllNamespaceIds :
         DeleteNamespaceStep(n) /\ SqlText(n) \in DefaultIds(db) =>
            last'.status = 400 /\ db' = db]_vars

\* the delete of a second namespace flagged default was refused while
\* snippets were stored
C2_Witness ==
    /\ last.op = "delete_namespace" /\ last.status = 400 /\ last.id # "default"
    /\ SqlText(last.id) \in DefaultIds(db)
    /\ db.snippets # <<>>

\* C3: while the service runs, exactly one row of namespaces has isDefault set.
C3_ExactlyOneDefault == Serving => DefaultCount(db) = 1

\* C4: no stored snippet has a non-null namespaceId that names no row of
\* namespaces.
C4_NoDanglingNamespace ==
    Serving =>
        \A i \in 1..Len(db.snippets) :
            \/ db.snippets[i].namespaceId = SqlNull
            \/ \E k \in 1..Len(db.namespaces) : db.namespaces[k].id = db.snippets[i].namespaceId

\* C5: after a successful wipe, list-snippets returns an empty list and
\* list-namespaces returns exactly one namespace, id "default", name "Default",
\* flagged default.
C5_WipeResets ==
    last.op = "wipe_database" /\ last.status = 200 =>
        /\ get_snippets(db) = [status |-> 200, body |-> <<>>]
        /\ get_namespaces(db).status = 200
        /\ Len(get_namespaces(db).body) = 1
        /\ get_namespaces(db).body[1].id = JStr("default")
        /\ get_namespaces(db).body[1].name = JStr("Default")
        /\ get_namespaces(db).body[1].isDefault = JBool(TRUE)

\* a wipe has just succeeded
C5_Witness == last.op = "wipe_database" /\ last.status = 200

\* a body as create_snippet normalises it before it stores it
Normalized(data, k) ==
    CASE k \in {"createdAt", "updatedAt"} -> ToEpochMs(data[k]).val
      [] k = "hasPreview" -> JBool(Truthy(data[k]))
      [] OTHER -> data[k]

\* C6: a create that succeeded, followed by a get of the same id, returns every
\* field of the body as it was submitted, after normalisation; inputParameters
\* comes back deeply equal to the value submitted.
C6_CreateGetRoundTrip ==
    [][\A id \in SnippetIds : \A data \in FieldSnippetBodies(id) :
         Handle("create_snippet", id, create_snippet(db, data)) /\ last'.status = 201 =>
            /\ get_snippet(db', id).status = 200
            /\ \A k \in DOMAIN data :
                 get_snippet(db', id).body[k] = Normalized(data, k)]_vars

\* the body has the members update_snippet indexes, and an updatedAt it can read
WellFormedUpdate(data) ==
    /\ {"title", "code", "language"} \subseteq DOMAIN data
    /\ (IsStr(Get(data, "updatedAt")) => Get(data, "updatedAt").str \in {Iso1, Iso2})

\* the step just taken answered an update_snippet on id
UpdateSnippetStep(id) == last'.op = "update_snippet" /\ last'.id = id

\* the rows that had the id keep their id and createdAt
KeepsIdAndCreatedAt ==
    /\ Len(db'.snippets) = Len(db.snippets)
    /\ \A i \in 1..Len(db.snippets) :
         /\ db'.snippets[i].id = db.snippets[i].id
         /\ db'.snippets[i].createdAt = db.snippets[i].createdAt

\* C7 as stated: update_snippet on an id that matches no row returns 404 and
\* changes no row; on an id that matches, it changes neither id nor createdAt.
C7_UpdateMissingIs404 ==
    [][\A id \in SnippetIds :
         UpdateSnippetStep(id) =>
            IF SnippetsWithId(db, id) = {}
            THEN last'.status = 404 /\ db' = db
            ELSE KeepsIdAndCreatedAt]_vars

\* C7 amended: on an id that matches no row, update_snippet returns 404 when
\* the body has title, code and language and a readable updatedAt and the
\* snippets table is there, and 500 otherwise; no row changes either way. On
\* an id that matches, it changes neither id nor createdAt.
C7_UpdateMissingIs404OrRaises ==
    [][\A id \in SnippetIds : \A data \in FieldSnippetBodies(id) :
         Handle("update_snippet", id, update_snippet(db, id, data)) =>
            IF SnippetsWithId(db, id) = {}
            THEN /\ last'.status = IF WellFormedUpdate(data) /\ SnippetsUsable(db)
                                    THEN 404 ELSE 500
                 /\ db' = db
            ELSE KeepsIdAndCreatedAt]_vars

\* an update of an id that is not stored was answered 404 while another
\* snippet was stored
C7_Witness ==
    /\ last.op = "update_snippet" /\ last.status = 404
    /\ SnippetsWithId(db, last.id) = {}
    /\ db.snippets # <<>>

\* C8: every request that completes has closed the connection it opened.
C8_ConnectionsReleased == last.leak = 0

\* C9: no committed state a request can read lacks the snippets table, the
\* namespaces table or a namespace flagged default.
C9_WipeAtomic ==
    Serving => {NAMESPACES, SNIPPETS} \subseteq db.tables /\ DefaultCount(db) >= 1

\* the file has the current schema
CurrentSchema(d) == NamespacesUsable(d) /\ SnippetsUsable(d)

\* namespaces is missing, or snippets is there without a namespaceId column
LegacySchema(d) == NAMESPACES \notin d.tables \/ (SNIPPETS \in d.tables /\ ~d.hasNamespaceId)

\* the row the seeding statement adds, at any time
SeededRows == {DefaultNamespace(now) : now \in Clock}

\* C10: on a file that has the current schema init_db leaves the snippets and
\* the namespaces as they are, but for the seeded default namespace it appends
\* when no row is flagged default; it never adds a second default; rows are
\* lost only when namespaces is missing or snippets has no namespaceId column.
C10_InitDbIdempotent ==
    [][last'.op = "init_db" =>
         /\ CurrentSchema(db) =>
              /\ db'.tables = db.tables /\ db'.hasNamespaceId
              /\ db'.snippets = db.snippets
              /\ IF DefaultCount(db) = 0
                 THEN \E row \in SeededRows : db'.namespaces = Append(db.namespaces, row)
                 ELSE db'.namespaces = db.namespaces
         /\ DefaultCount(db') = IF DefaultCount(db) = 0 THEN 1 ELSE DefaultCount(db)
         /\ (db.snippets # <<>> /\ db'.snippets # db.snippets) => LegacySchema(db)
         /\ (db.namespaces # <<>>
               /\ SubSeq(db'.namespaces, 1, Len(db.namespaces)) # db.namespaces) =>
              LegacySchema(db)]_vars

\* init_db has just run over a file that holds snippets and namespaces
C10_Witness ==
    /\ last.op = "init_db" /\ last.status = 0
    /\ db.snippets # <<>>
    /\ Len(db.namespaces) > 1

====
